---- MODULE Spec2Model ----
(***************************************************************************)
(* Model of the data-scientist agent: the HTTP layer of api.py (session    *)
(* storage, upload, process_query endpoint), the process-wide agent of      *)
(* src/agent.py (get_agent, update_dataframe, process_query) with the       *)
(* AgentExecutor loop it configures (max_iterations, handle_parsing_errors) *)
(* and the code-execution tool PythonREPLTool._run.                         *)
(*                                                                         *)
(* Spec is the server as a whole, one action per request or round.  The    *)
(* language model is the environment: each round it answers with an action *)
(* on python_repl, an action on an unknown tool, a final answer, a text    *)
(* that matches neither shape, or the request fails.  Code run in Spec     *)
(* raises subclasses of Exception only (the ones `except Exception` at     *)
(* agent.py:129 and agent.py:294 catch).                                   *)
(*                                                                         *)
(* Further specifications look at one part each, in smaller steps:         *)
(*   ToolSpec     PythonREPLTool._run block by block, with sys.stdout, on a *)
(*                tool that may have no dataset and code that may raise     *)
(*                SystemExit, assign sys.stdout or make figures;            *)
(*   PadSpec      the AgentExecutor loop with its list of steps, on an      *)
(*                agent used directly (get_agent(df), then process_query);  *)
(*   ServeSpec    the endpoints of api.py as coroutines of one event loop;  *)
(*   FrontSpec    the Send handler of app.py with the intent classifier;    *)
(*   ChartSpec    the figures of a query, execution by execution;           *)
(*   FenceSpec    _run on the text of an Action Input, with its markers;    *)
(*   LimiterSpec  RateLimiter.wait_if_needed of the test runner;            *)
(*   SessionSpec  DF_STORAGE and the session files through uploads,         *)
(*                lookups, clear_session and restarts, where each file      *)
(*                operation can fail.                                       *)
(***************************************************************************)
EXTENDS Integers, Sequences, FiniteSets, TLC

(* ------------------------------ bounds --------------------------------- *)
MaxQueries == 2          \* process_query requests admitted in one behaviour
RunCap == 2              \* runs of unparseable outputs are counted up to this length

(* ------------------------- program constants --------------------------- *)
max_iterations == 15     \* AgentExecutor(max_iterations=15)

Sessions == {"s1", "s2"}
NoSession == "none"
Datasets == {1, 2}
NoDataset == 0           \* Python None for a DataFrame
\* the files uploaded: s1's user uploads dataset 1 and may replace it by dataset 2,
\* which is also the dataset s2's user uploads
SessionFiles == {<<"s1", 1>>, <<"s1", 2>>, <<"s2", 2>>}

(* values held by variables of executed code: records of one shape        *)
Val(t, v) == [t |-> t, v |-> v]
Absent == Val("absent", 0)            \* the name is not a key of the dict
IntVal(i) == Val("int", i)
DatasetVal(d) == Val("dataset", d)    \* the DataFrame uploaded as dataset d
DerivedVal == Val("derived", 0)       \* a DataFrame computed by user code
ChartVal(q) == Val("chart", q)        \* a Plotly figure created during query q
GoFigureVal(q) == Val("go.Figure", q) \* a figure built with go.Figure() during query q
NoFigure == Val("none", 0)            \* Python None: current_figure is None, `fig = None`

HelperName == "find_best_column_match"
PrivateNames == {"_tmp"}              \* names that start with '_'
Names == {"x", "df", "fig", "figure", "_tmp", HelperName}

StartsWithUnderscore(key) == key \in PrivateNames

(* ------------------------------ messages ------------------------------- *)
NoMsg == ""
ExecMsgs == {"division by zero"}      \* str(e) of an exception of user code
LLMMsgs == {"model unreachable"}      \* str(e) of a failed model request
ParsingErrorText == "Check your output and make sure it conforms!"
StoppedText == "Agent stopped due to iteration limit or time limit."
NoDataText == "Error: No data available. Please upload a CSV file first."
ExecErrorPrefix == "Error executing code: "
ExecOkText == "Code executed successfully."
VizOkText == "Code executed successfully. Interactive visualization created."
InvalidToolText == "is not a valid tool, try one of [python_repl]."

(* ------------------------------ the code ------------------------------- *)
(* A code string the model submits as Action Input, described by what      *)
(* running it does: the names it assigns at top level (its exec_locals),   *)
(* whether its text contains 'px.', 'go.' or 'ff.', and the message of the *)
(* exception it raises (NoMsg when it runs to its end).                    *)
Codes == {"set_x1", "set_x2", "set_df", "plot", "raise"}

\* further code strings, about figures:
\*   "plot_go"     figure = go.Figure(...)
\*   "plot_show"   fig = px.bar(df, ...).show()      (show() returns None)
\*   "plot_only"   px.bar(df, ...).show(); x = 1     (no name fig or figure)
\*   "fig_plain"   fig = 1                           (no 'px.', 'go.' or 'ff.')
\*   "plot_raise"  fig = px.bar(df, ...); x = 1 / 0
FigureCodes == {"plot_go", "plot_show", "plot_only", "fig_plain", "plot_raise"}

\* and what a text can turn out to be besides a code above:
\*   "pass"          the empty text: exec('') does nothing
\*   "name_error"    a text whose first statement is the word python
\*   "syntax_error"  a text that a backtick is left in
TextCodes == {"pass", "name_error", "syntax_error"}

\* exec_locals of the user code after it ran (or up to the raise), made during query q
CodeLocals(code, q) ==
    [key \in Names |->
        CASE code = "set_x1" /\ key = "x"    -> IntVal(1)
          [] code = "set_x1" /\ key = "_tmp" -> IntVal(1)
          [] code = "set_x2" /\ key = "x"    -> IntVal(2)
          [] code = "raise"  /\ key = "x"    -> IntVal(2)
          [] code = "set_df" /\ key = "df"   -> DerivedVal
          [] code = "plot"   /\ key = "fig"  -> ChartVal(q)
          [] code = "plot_go"    /\ key = "figure" -> GoFigureVal(q)
          [] code = "plot_show"  /\ key = "fig"    -> NoFigure
          [] code = "plot_only"  /\ key = "x"      -> IntVal(1)
          [] code = "fig_plain"  /\ key = "fig"    -> IntVal(1)
          [] code = "plot_raise" /\ key = "fig"    -> ChartVal(q)
          [] OTHER -> Absent]

\* 'px.' in code or 'go.' in code or 'ff.' in code
UsesPlotly(code) == code \in {"plot", "plot_go", "plot_show", "plot_only", "plot_raise"}

\* the message of the exception the code raises, NoMsg when it raises none
CodeRaises(code) ==
    CASE code \in {"raise", "plot_raise"} -> "division by zero"
      [] code = "name_error" -> "name 'python' is not defined"
      [] code = "syntax_error" -> "invalid syntax"
      [] OTHER -> NoMsg

(* ----------------------- PythonREPLTool._run --------------------------- *)
FunctionVal == Val("function", 0)     \* the helper defined by fuzzy_match_code

\* an outcome text of a tool or of the parser recovery
Text(text, msg, vars) == [text |-> text, msg |-> msg, vars |-> vars]
NoObservation == Text("", NoMsg, {})

\* a step of the scratchpad: the action named, its input and the observation
Step(action, input, obs) == [action |-> action, input |-> input, observation |-> obs]
NoStep == Step("", "", NoObservation)
ToolName == "python_repl"
ExceptionAction == "_Exception"       \* the step the executor records for a parse error
UnknownTool == "unknown_tool"

\* exec_globals: the fixed names, then update(self._persistent_vars)
ExecGlobals(df, pvars) ==
    [key \in Names |->
        IF pvars[key] # Absent THEN pvars[key]
        ELSE IF key = "df" THEN DatasetVal(df)
        ELSE Absent]

\* exec_locals after exec(fuzzy_match_code) and exec(code)
ExecLocals(code, q) ==
    [key \in Names |->
        IF CodeLocals(code, q)[key] # Absent THEN CodeLocals(code, q)[key]
        ELSE IF key = HelperName THEN FunctionVal
        ELSE Absent]

\* not key.startswith('_') and key != 'find_best_column_match', negated
IsReserved(key) == StartsWithUnderscore(key) \/ key = HelperName

\* a bug MergeLocals could have: a name already stored keeps its old value
MergeLocalsKeepsOld(pvars, locals) ==
    [key \in Names |->
        IF locals[key] # Absent /\ ~IsReserved(key) /\ pvars[key] = Absent THEN locals[key]
        ELSE pvars[key]]

\* for key, value in exec_locals.items(): ... self._persistent_vars[key] = value
MergeLocals(pvars, locals) ==
    [key \in Names |->
        IF locals[key] # Absent /\ ~IsReserved(key) THEN locals[key]
        ELSE pvars[key]]

\* ('px.' in code or ...) and ('fig' in exec_locals or 'figure' in exec_locals)
PlotlyFigureLocal(code, locals) ==
    UsesPlotly(code) /\ (locals["fig"] # Absent \/ locals["figure"] # Absent)

\* exec_locals.get(key): None for a name that is not a key
Get(locals, key) == IF locals[key] = Absent THEN NoFigure ELSE locals[key]

\* the truth value `or` tests: None and 0 are false, a figure is true
Truthy(v) == v # NoFigure /\ v # IntVal(0)

\* fig = exec_locals.get('fig') or exec_locals.get('figure')
FigureLocal(locals) ==
    IF Truthy(Get(locals, "fig")) THEN Get(locals, "fig") ELSE Get(locals, "figure")

\* a bug CaptureFigure could have: a figure already held is kept
CaptureFigureKeepsFirst(figure, fig) == IF figure = NoFigure THEN fig ELSE figure

\* self.current_figure = fig
CaptureFigure(figure, fig) == fig

\* a bug ScopeAfterRaise could have: the merge is done in the except clause too
ScopeAfterRaiseMerged(pvars, locals) ==
    [key \in Names |->
        IF locals[key] # Absent /\ ~IsReserved(key) THEN locals[key] ELSE pvars[key]]

\* _persistent_vars when exec raised: the for loop after exec is skipped
ScopeAfterRaise(pvars, locals) == pvars

\* the call falls off the end of the try block: _run returns None
NoResult == Text("None", NoMsg, {})

\* result_vars, the names summarized after "Results:"
ResultVars(locals) == {key \in Names : locals[key] # Absent /\ ~IsReserved(key)}

\* a bug ErrorResult could have: the text without str(e)
ErrorResultWithoutMessage(msg) == Text(ExecErrorPrefix, NoMsg, {})

\* return f"Error executing code: {str(e)}"
ErrorResult(msg) == Text(ExecErrorPrefix, msg, {})

\* the streams sys.stdout can be: the one the process started with, one a test
\* harness installed, the StringIO of _run, and one that executed code installed
Console == "console"
HostCapture == "host capture"
Captured == "StringIO"
Replaced == "stream installed by the code"

\* a bug NoDataBound could have: the test of self.df is missing
NoDataBoundNever(df) == FALSE

\* if self.df is None
NoDataBound(df) == df = NoDataset

\* the code raises SystemExit (sys.exit(), exit()), which `except Exception` lets pass
CodeExits(code) == code = "exit"

\* sys.stdout after exec(code): the code may assign it
CodeStdout(code, stream) == IF code = "set_stdout" THEN Replaced ELSE stream

\* _run(code) on a tool whose fields are df, _persistent_vars and current_figure,
\* during query q: the returned text, the fields after the call, and whether an
\* exception leaves the call instead of a text
Run(code, df, pvars, figure, q) ==
    LET locals == ExecLocals(code, q) IN
    IF NoDataBound(df)
    THEN [result |-> Text(NoDataText, NoMsg, {}), pvars |-> pvars, figure |-> figure,
          propagates |-> FALSE]
    ELSE IF CodeExits(code)
    THEN [result |-> NoObservation, pvars |-> pvars, figure |-> figure,
          propagates |-> TRUE]
    ELSE IF CodeRaises(code) # NoMsg
    THEN [result |-> ErrorResult(CodeRaises(code)),
          pvars |-> ScopeAfterRaise(pvars, locals), figure |-> figure,
          propagates |-> FALSE]
    ELSE IF PlotlyFigureLocal(code, locals)
    THEN IF FigureLocal(locals) # NoFigure
         THEN [result |-> Text(VizOkText, NoMsg, {}),
               pvars |-> MergeLocals(pvars, locals),
               figure |-> CaptureFigure(figure, FigureLocal(locals)),
               propagates |-> FALSE]
         ELSE [result |-> NoResult,
               pvars |-> MergeLocals(pvars, locals), figure |-> figure,
               propagates |-> FALSE]
    ELSE [result |-> Text(ExecOkText, NoMsg, ResultVars(locals)),
          pvars |-> MergeLocals(pvars, locals), figure |-> figure,
          propagates |-> FALSE]

(* ------------------------------- state --------------------------------- *)
VARIABLES
    DF_STORAGE,       \* api.py: session id -> dataset held in memory (NoDataset: no key)
    disk,             \* api.py: session id -> dataset pickled under session_storage
    disk_ok,          \* the session_storage directory can be written
    has_key,          \* the environment holds the model credential
    agent_instance,   \* agent.py: the global agent exists
    agent_df,         \* DataScientistAgent.df
    tool_df,          \* PythonREPLTool.df
    persistent_vars,  \* PythonREPLTool._persistent_vars
    current_figure,   \* PythonREPLTool.current_figure
    pc,               \* "idle", or "loop" while agent_executor.invoke runs
    cur_session,      \* the session of the request being served
    iterations,       \* AgentExecutor's round counter of the running invoke
    last_step,        \* the last step appended to the scratchpad of the running invoke
    envelope,         \* what the last process_query returned
    http_status,      \* status of the last HTTP response, 0 while a request is served
    queryNo,          \* process_query calls started so far
    llm_calls,        \* history: model requests made by the current query
    malformed_run,    \* history: length of the current run of unparseable outputs
    last_assigned,    \* history: storable name -> value last assigned by a run that ended
    had_rounds        \* history: the sessions whose queries executed code

VARIABLES
    sys_stdout,       \* sys.stdout: the stream installed as standard output
    old_stdout,       \* _run: its local old_stdout
    run_pc,           \* _run: "idle", or the block a call is in ("try", "finally")
    run_code,         \* _run: the code of the call in progress
    run_outcome,      \* what the call of _run that just ended gave its caller
    run_entry,        \* history: the tool's fields and sys.stdout when that call began
    exec_attempted    \* history: that call reached exec(code, ...)

VARIABLES
    intermediate_steps,  \* AgentExecutor: the steps of the running invoke, in order
    agent_scratchpad,    \* the steps rendered into the latest model request
    model_output         \* the parsed output of the latest model request

VARIABLES
    req_state,        \* uvicorn: request -> "new", "queued", "running", "waiting", "done"
    loop_owner,       \* asyncio: the request whose coroutine the event loop is running
    in_agent,         \* history: the requests inside agent.process_query
    rounds_done       \* history: request -> rounds its query has executed

VARIABLES
    front_pc,         \* app.py Send handler: "ready", "analyzing", "deciding"
    analysis,         \* app.py: what analyze_query_with_api returned
    classifier,       \* history: how the classifier ended for the query being sent
    forwarded,        \* history: process_query_with_api was called for that query
    messages          \* st.session_state.messages, the roles and kinds in order

VARIABLES
    captured,         \* history: the figure the latest capturing execution of the query made
    captures          \* history: executions of the query that captured a figure

VARIABLES
    code_text,        \* _run: its argument code, a sequence of pieces of text
    code_body,        \* history: the code that text was made from
    code_wrapper      \* history: the markers put around it

VARIABLES
    requests,         \* RateLimiter.requests, the deque of recorded timestamps
    clock,            \* time.time(), in seconds
    recorded,         \* history: every timestamp wait_if_needed has recorded
    slept             \* history: the seconds the last wait_if_needed slept

VARIABLES
    uploaded_ok,      \* history: session -> dataset of its last upload answered "success"
    cleared           \* history: sessions cleared with "success" and not uploaded since

chartVars == <<captured, captures>>
fenceVars == <<code_text, code_body, code_wrapper>>
limiterVars == <<requests, clock, recorded, slept>>
sessionHistVars == <<uploaded_ok, cleared>>
moreVars == <<chartVars, fenceVars, limiterVars, sessionHistVars>>
toolRunVars == <<sys_stdout, old_stdout, run_pc, run_code, run_outcome, run_entry,
                 exec_attempted>>
padVars == <<intermediate_steps, agent_scratchpad, model_output>>
serveVars == <<req_state, loop_owner, in_agent, rounds_done>>
frontVars == <<front_pc, analysis, classifier, forwarded, messages>>
unitVars == <<toolRunVars, padVars, serveVars, frontVars, moreVars>>

vars == <<DF_STORAGE, disk, disk_ok, has_key, agent_instance, agent_df, tool_df,
          persistent_vars, current_figure, pc, cur_session, iterations,
          last_step, envelope, http_status, queryNo, llm_calls,
          malformed_run, last_assigned, had_rounds, unitVars>>

storeVars == <<DF_STORAGE, disk, disk_ok>>
agentVars == <<agent_instance, agent_df, tool_df, persistent_vars, current_figure>>
loopVars == <<pc, cur_session, iterations, last_step, envelope, queryNo,
              llm_calls, malformed_run>>
histVars == <<last_assigned, had_rounds>>

EmptyScope == [key \in Names |-> Absent]

(* ------------------------- response envelopes -------------------------- *)
NoError == "(no error key)"
NoEnvelope == [success |-> FALSE, response |-> <<>>, chart_figure |-> NoFigure,
               error |-> NoError, query |-> 0]
FinalAnswerText == "final answer"

\* the dict returned after agent_executor.invoke returned result
SuccessEnvelope(output, chart, q) ==
    [success |-> TRUE, response |-> <<output>>, chart_figure |-> chart,
     error |-> NoError, query |-> q]

\* a bug FailureEnvelope could have: the success flag copied from the other branch
FailureEnvelopeFlaggedSuccess(msg, q) ==
    [success |-> TRUE, response |-> <<"I encountered an error: ", msg>>,
     chart_figure |-> NoFigure, error |-> msg, query |-> q]

\* a bug FailureEnvelope could have: the figure of the query is attached
FailureEnvelopeWithChart(msg, q) ==
    [success |-> FALSE, response |-> <<"I encountered an error: ", msg>>,
     chart_figure |-> ChartVal(q), error |-> msg, query |-> q]

\* the dict returned by the except branch
FailureEnvelope(msg, q) ==
    [success |-> FALSE, response |-> <<"I encountered an error: ", msg>>,
     chart_figure |-> NoFigure, error |-> msg, query |-> q]

(* ------------------------- idle values of the state -------------------- *)
\* what a call of _run gives its caller: nothing yet, a returned text, or an exception
Outcome(kind, result) == [kind |-> kind, result |-> result]
NoOutcome == Outcome("none", NoObservation)

\* the tool's fields and sys.stdout at the entry of a call of _run
Entry(df, pvars, figure, stdout) ==
    [df |-> df, pvars |-> pvars, figure |-> figure, stdout |-> stdout]
NoEntry == Entry(NoDataset, EmptyScope, NoFigure, Console)

\* the HTTP requests a behaviour of the server sees: POST /process_query/ and
\* POST /upload/
QueryRequests == {"q1", "q2"}
UploadRequests == {"u1", "u2"}
Requests == QueryRequests \cup UploadRequests
NoRequest == "no request"

\* analyze_query_with_api returned None
NoAnalysis == "None"

\* DF_STORAGE = {} and an empty session_storage directory
StoreIdle ==
    /\ DF_STORAGE = [s \in Sessions |-> NoDataset]
    /\ disk = [s \in Sessions |-> NoDataset]

\* agent_instance = None
AgentIdle ==
    /\ agent_instance = FALSE
    /\ agent_df = NoDataset
    /\ tool_df = NoDataset
    /\ persistent_vars = EmptyScope
    /\ current_figure = NoFigure

\* no process_query was called
LoopIdle ==
    /\ pc = "idle"
    /\ cur_session = NoSession
    /\ iterations = 0
    /\ last_step = NoStep
    /\ envelope = NoEnvelope
    /\ http_status = 0
    /\ queryNo = 0
    /\ llm_calls = 0
    /\ malformed_run = 0
    /\ last_assigned = EmptyScope
    /\ had_rounds = {}

\* no call of _run was made
ToolIdle ==
    /\ sys_stdout = Console
    /\ old_stdout = Console
    /\ run_pc = "idle"
    /\ run_code = ""
    /\ run_outcome = NoOutcome
    /\ run_entry = NoEntry
    /\ exec_attempted = FALSE

\* no invoke is running
PadIdle ==
    /\ intermediate_steps = <<>>
    /\ agent_scratchpad = <<>>
    /\ model_output = NoStep

\* no request has arrived at the server
ServeIdle ==
    /\ req_state = [r \in Requests |-> "new"]
    /\ loop_owner = NoRequest
    /\ in_agent = {}
    /\ rounds_done = [r \in Requests |-> 0]

\* the chat page before the first Send
FrontIdle ==
    /\ front_pc = "ready"
    /\ analysis = NoAnalysis
    /\ classifier = "none"
    /\ forwarded = FALSE
    /\ messages = <<>>

\* no execution of the query has captured a figure
ChartIdle ==
    /\ captured = NoFigure
    /\ captures = 0

\* _run was not called with a text
FenceIdle ==
    /\ code_text = <<>>
    /\ code_body = <<>>
    /\ code_wrapper = "none"

\* RateLimiter(...): an empty deque
LimiterIdle ==
    /\ requests = <<>>
    /\ clock = 0
    /\ recorded = <<>>
    /\ slept = 0

\* no upload and no clear_session was answered
SessionHistIdle ==
    /\ uploaded_ok = [s \in Sessions |-> NoDataset]
    /\ cleared = {}

MoreIdle == ChartIdle /\ FenceIdle /\ LimiterIdle /\ SessionHistIdle

(* ------------------------------- Init ---------------------------------- *)
Init ==
    /\ StoreIdle
    /\ disk_ok \in BOOLEAN
    /\ has_key \in BOOLEAN
    /\ AgentIdle
    /\ LoopIdle
    /\ ToolIdle /\ PadIdle /\ ServeIdle /\ FrontIdle /\ MoreIdle

(* ----------------------------- api.py ---------------------------------- *)
\* save_session_to_disk: the file is written, or the write fails and is only logged
SaveSessionToDisk(d, s, df, saved) == IF saved THEN [d EXCEPT ![s] = df] ELSE d

\* get_or_load_session: the dataset, from memory or else from disk
GetOrLoadSession(s) == IF DF_STORAGE[s] # NoDataset THEN DF_STORAGE[s] ELSE disk[s]

\* DF_STORAGE after get_or_load_session(s): a dataset loaded from disk is cached
CacheAfterLoad(s) == [DF_STORAGE EXCEPT ![s] = GetOrLoadSession(s)]

\* POST /upload/ with a readable file holding dataset d
UploadData(s, d) ==
    /\ pc = "idle"
    /\ DF_STORAGE' = [DF_STORAGE EXCEPT ![s] = d]
    /\ disk' = SaveSessionToDisk(disk, s, d, disk_ok)
    /\ http_status' = 200
    /\ UNCHANGED <<disk_ok, has_key, agentVars, loopVars, histVars, unitVars>>

\* POST /upload/ with a file of another type (400) or one pandas cannot read (500)
UploadRejected(s, status) ==
    /\ pc = "idle"
    /\ http_status' = status
    /\ UNCHANGED <<storeVars, has_key, agentVars, loopVars, histVars, unitVars>>

\* POST /process_query/ for a session with no dataset in memory or on disk: 404
QueryNoSession(s) ==
    /\ pc = "idle"
    /\ queryNo < MaxQueries
    /\ GetOrLoadSession(s) = NoDataset
    /\ http_status' = 404
    /\ UNCHANGED <<storeVars, has_key, agentVars, loopVars, histVars, unitVars>>

\* POST /process_query/ when get_agent raises ValueError (no credential): 500
QueryNoCredentials(s) ==
    /\ pc = "idle"
    /\ queryNo < MaxQueries
    /\ GetOrLoadSession(s) # NoDataset
    /\ ~agent_instance /\ ~has_key
    /\ DF_STORAGE' = CacheAfterLoad(s)
    /\ http_status' = 500
    /\ UNCHANGED <<disk, disk_ok, has_key, agentVars, loopVars, histVars, unitVars>>

(* ----------------------------- agent.py -------------------------------- *)
\* the fields of the global agent and of its tool
AgentFields ==
    [agent_df |-> agent_df, tool_df |-> tool_df,
     persistent_vars |-> persistent_vars, current_figure |-> current_figure]

\* DataScientistAgent(df): self.df = df and a new PythonREPLTool(df=df)
NewAgent(df) ==
    [agent_df |-> df, tool_df |-> df, persistent_vars |-> EmptyScope,
     current_figure |-> NoFigure]

\* a bug update_dataframe could have: a new dataset starts a clean tool
UpdateDataframeNewTool(a, df) == NewAgent(df)

\* update_dataframe(df): self.df = df; self.python_tool.df = df
UpdateDataframe(a, df) == [a EXCEPT !.agent_df = df, !.tool_df = df]

\* get_agent(df) on the global agent: its fields afterwards.  A new agent gets df
\* and an empty tool; an existing one is rebound by update_dataframe.
GetAgent(df) ==
    IF ~agent_instance THEN NewAgent(df)
    ELSE IF df # NoDataset THEN UpdateDataframe(AgentFields, df)
    ELSE AgentFields

\* POST /process_query/ up to the call of agent_executor.invoke
QueryStart(s) ==
    /\ pc = "idle"
    /\ queryNo < MaxQueries
    /\ GetOrLoadSession(s) # NoDataset
    /\ agent_instance \/ has_key
    /\ DF_STORAGE' = CacheAfterLoad(s)
    /\ LET a == GetAgent(GetOrLoadSession(s)) IN
        /\ agent_instance' = TRUE
        /\ agent_df' = a.agent_df
        /\ tool_df' = a.tool_df
        /\ persistent_vars' = a.persistent_vars
        /\ current_figure' = a.current_figure
    /\ pc' = "loop"
    /\ cur_session' = s
    /\ queryNo' = queryNo + 1
    /\ iterations' = 0
    /\ last_step' = NoStep
    /\ llm_calls' = 0
    /\ malformed_run' = 0
    /\ envelope' = NoEnvelope
    /\ http_status' = 0
    /\ UNCHANGED <<disk, disk_ok, has_key, histVars, unitVars>>

(* ------------- AgentExecutor(max_iterations, handle_parsing_errors) ---- *)
\* a bug ShouldContinue could have: one round too many
ShouldContinueOffByOne(i) == i <= max_iterations

\* the executor's loop condition: rounds remain in the step budget
ShouldContinue(i) == i < max_iterations

\* what the executor records when handle_parsing_errors is True instead of the string
ParsingErrorDefaultObservation == Text("Invalid or incomplete response", NoMsg, {})

\* the observation the executor records for an output that matches neither shape:
\* handle_parsing_errors is a string, so the step is kept and the loop goes on
ParsingErrorObservation == Text(ParsingErrorText, NoMsg, {})

\* one model request was made and a step was appended to the scratchpad
StepTaken(step) ==
    /\ iterations' = iterations + 1
    /\ llm_calls' = llm_calls + 1
    /\ last_step' = step
    /\ UNCHANGED <<pc, cur_session, envelope, queryNo, http_status, storeVars,
                   has_key, agent_instance, agent_df, tool_df, unitVars>>

\* process_query returns env; the endpoint answers 200 with it
Return(env) ==
    /\ envelope' = env
    /\ pc' = "idle"
    /\ http_status' = 200
    /\ UNCHANGED <<cur_session, iterations, last_step, queryNo, storeVars,
                   has_key, agent_instance, agent_df, tool_df, persistent_vars,
                   malformed_run, histVars, unitVars>>

\* the executor runs the tool on code and appends the step
ToolStep(code) ==
    /\ LET r == Run(code, tool_df, persistent_vars, current_figure, queryNo) IN
        /\ persistent_vars' = r.pvars
        /\ current_figure' = r.figure
        /\ StepTaken(Step(ToolName, code, r.result))
    /\ malformed_run' = 0
    /\ had_rounds' = had_rounds \cup {cur_session}
    /\ last_assigned' =
        [key \in Names |->
            IF /\ CodeRaises(code) = NoMsg
               /\ CodeLocals(code, queryNo)[key] # Absent
               /\ key \notin PrivateNames \cup {HelperName}
            THEN CodeLocals(code, queryNo)[key]
            ELSE last_assigned[key]]

\* a bug ModelAction could have: an exception of the code leaves the tool and ends
\* the query in the except branch of process_query
ModelActionFatal(code) ==
    /\ pc = "loop"
    /\ ShouldContinue(iterations)
    /\ IF CodeRaises(code) # NoMsg
       THEN /\ llm_calls' = llm_calls + 1
            /\ current_figure' = current_figure
            /\ Return(FailureEnvelope(CodeRaises(code), queryNo))
       ELSE ToolStep(code)

\* round: the model names python_repl with input code; the tool runs it
ModelAction(code) ==
    /\ pc = "loop"
    /\ ShouldContinue(iterations)
    /\ ToolStep(code)

\* round: the model names a tool the executor does not have
ModelInvalidTool ==
    /\ pc = "loop"
    /\ ShouldContinue(iterations)
    /\ StepTaken(Step(UnknownTool, "", Text(InvalidToolText, NoMsg, {})))
    /\ malformed_run' = 0
    /\ UNCHANGED <<persistent_vars, current_figure, histVars>>

\* round: the output has neither an action nor a final answer
ModelMalformed ==
    /\ pc = "loop"
    /\ ShouldContinue(iterations)
    /\ StepTaken(Step(ExceptionAction, "", ParsingErrorObservation))
    /\ malformed_run' = IF malformed_run < RunCap THEN malformed_run + 1 ELSE RunCap
    /\ UNCHANGED <<persistent_vars, current_figure, histVars>>

\* round: the model gives its final answer; invoke returns and the figure is read
ModelFinalAnswer ==
    /\ pc = "loop"
    /\ ShouldContinue(iterations)
    /\ llm_calls' = llm_calls + 1
    /\ current_figure' = NoFigure
    /\ Return(SuccessEnvelope(FinalAnswerText, current_figure, queryNo))

\* round: the model request raises; invoke raises and the except branch answers
ModelFails(msg) ==
    /\ pc = "loop"
    /\ ShouldContinue(iterations)
    /\ llm_calls' = llm_calls + 1
    /\ current_figure' = current_figure
    /\ Return(FailureEnvelope(msg, queryNo))

\* the step budget is used up: invoke returns the executor's stopping response
StepLimit ==
    /\ pc = "loop"
    /\ ~ShouldContinue(iterations)
    /\ llm_calls' = llm_calls
    /\ current_figure' = NoFigure
    /\ Return(SuccessEnvelope(StoppedText, current_figure, queryNo))

(* ------------------------------- Next ---------------------------------- *)
Next ==
    \/ \E u \in SessionFiles : UploadData(u[1], u[2])
    \/ \E s \in Sessions, status \in {400, 500} : UploadRejected(s, status)
    \/ \E s \in Sessions : QueryNoSession(s)
    \/ \E s \in Sessions : QueryNoCredentials(s)
    \/ \E s \in Sessions : QueryStart(s)
    \/ \E code \in Codes : ModelAction(code)
    \/ ModelInvalidTool
    \/ ModelMalformed
    \/ ModelFinalAnswer
    \/ \E msg \in LLMMsgs : ModelFails(msg)
    \/ StepLimit

Spec == Init /\ [][Next]_vars

(* --------------- PythonREPLTool._run, block by block -------------------- *)
(* The tool used on its own, as a caller holding a PythonREPLTool uses it:  *)
(* the df field is assigned, a stream is installed as sys.stdout, and _run  *)
(* is called with code that may also end the interpreter or assign          *)
(* sys.stdout.                                                              *)
ToolCodes == Codes \cup FigureCodes \cup {"exit", "set_stdout"}

\* a bug RestoreStdout could have: the finally block is missing
RestoreStdoutSkipped(saved, stream) == stream

\* finally: sys.stdout = old_stdout
RestoreStdout(saved, stream) == saved

\* what the tool specification leaves alone
toolFrame == <<storeVars, has_key, agent_instance, agent_df, loopVars, http_status,
               histVars, padVars, serveVars, frontVars, moreVars>>

\* PythonREPLTool(df=df), df None by default
ToolInit ==
    /\ StoreIdle /\ disk_ok = TRUE /\ has_key = TRUE
    /\ agent_instance = FALSE
    /\ agent_df = NoDataset
    /\ tool_df \in Datasets \cup {NoDataset}
    /\ persistent_vars = EmptyScope
    /\ current_figure = NoFigure
    /\ LoopIdle /\ ToolIdle /\ PadIdle /\ ServeIdle /\ FrontIdle /\ MoreIdle

\* self.python_tool.df = df
ToolBind(d) ==
    /\ run_pc = "idle"
    /\ tool_df' = d
    /\ run_outcome' = NoOutcome
    /\ UNCHANGED <<persistent_vars, current_figure, sys_stdout, old_stdout, run_pc,
                   run_code, run_entry, exec_attempted, toolFrame>>

\* the caller installs a stream as sys.stdout between two calls
InstallStdout(stream) ==
    /\ run_pc = "idle"
    /\ sys_stdout' = stream
    /\ run_outcome' = NoOutcome
    /\ UNCHANGED <<tool_df, persistent_vars, current_figure, old_stdout, run_pc,
                   run_code, run_entry, exec_attempted, toolFrame>>

\* _run(code) up to the try block: the test of self.df, then the redirection
RunCall(code) ==
    /\ run_pc = "idle"
    /\ run_code' = code
    /\ run_entry' = Entry(tool_df, persistent_vars, current_figure, sys_stdout)
    /\ exec_attempted' = FALSE
    /\ IF NoDataBound(tool_df)
       THEN /\ run_outcome' =
                 Outcome("returned",
                         Run(code, tool_df, persistent_vars, current_figure, queryNo).result)
            /\ UNCHANGED <<sys_stdout, old_stdout, run_pc>>
       ELSE /\ old_stdout' = sys_stdout
            /\ sys_stdout' = Captured
            /\ run_pc' = "try"
            /\ run_outcome' = NoOutcome
    /\ UNCHANGED <<tool_df, persistent_vars, current_figure, toolFrame>>

\* the try block with its except clause: exec, the merge, the result
RunTry ==
    /\ run_pc = "try"
    /\ LET r == Run(run_code, tool_df, persistent_vars, current_figure, queryNo) IN
        /\ persistent_vars' = r.pvars
        /\ current_figure' = r.figure
        /\ run_outcome' = IF r.propagates THEN Outcome("raised", NoObservation)
                          ELSE Outcome("returned", r.result)
    /\ exec_attempted' = TRUE
    /\ sys_stdout' = CodeStdout(run_code, sys_stdout)
    /\ run_pc' = "finally"
    /\ UNCHANGED <<tool_df, old_stdout, run_code, run_entry, toolFrame>>

\* the finally block, then the return or the exception reaches the caller
RunFinally ==
    /\ run_pc = "finally"
    /\ sys_stdout' = RestoreStdout(old_stdout, sys_stdout)
    /\ run_pc' = "idle"
    /\ UNCHANGED <<tool_df, persistent_vars, current_figure, old_stdout, run_code,
                   run_outcome, run_entry, exec_attempted, toolFrame>>

ToolNext ==
    \/ \E d \in Datasets \cup {NoDataset} : ToolBind(d)
    \/ \E stream \in {Console, HostCapture} : InstallStdout(stream)
    \/ \E code \in ToolCodes : RunCall(code)
    \/ RunTry
    \/ RunFinally

ToolSpec == ToolInit /\ [][ToolNext]_vars

(* ------------- AgentExecutor round by round, with its scratchpad -------- *)
(* The agent used as a library, the way TestRunner uses it: get_agent(df)   *)
(* once, then process_query for each question.  A round is two steps: the   *)
(* model request, which carries the scratchpad, and the execution of the    *)
(* parsed output, which appends the step.                                   *)
\* the DataFrame given to get_agent: None, or the first dataset
PadDatasets == {NoDataset} \cup {d \in Datasets : \A e \in Datasets : d <= e}
PadCodes == {"set_x1"}

\* a bug AppendStep could have: only the latest step is kept
AppendStepKeepsLast(steps, step) == <<step>>

\* intermediate_steps.append((action, observation))
AppendStep(steps, step) == Append(steps, step)

\* what the executor specification leaves alone
padFrame == <<storeVars, has_key, agent_instance, agent_df, tool_df, cur_session,
              last_step, http_status, malformed_run, histVars, toolRunVars,
              serveVars, frontVars, moreVars>>

\* self.agent = get_agent(dataframe), dataframe possibly None
PadInit ==
    /\ StoreIdle /\ disk_ok = TRUE /\ has_key = TRUE
    /\ agent_instance = TRUE
    /\ agent_df \in PadDatasets
    /\ tool_df = agent_df
    /\ persistent_vars = EmptyScope
    /\ current_figure = NoFigure
    /\ LoopIdle /\ ToolIdle /\ PadIdle /\ ServeIdle /\ FrontIdle /\ MoreIdle

\* await self.agent.process_query(question): invoke starts with no steps
DirectQuery ==
    /\ pc = "idle"
    /\ queryNo < MaxQueries
    /\ pc' = "plan"
    /\ queryNo' = queryNo + 1
    /\ iterations' = 0
    /\ llm_calls' = 0
    /\ envelope' = NoEnvelope
    /\ intermediate_steps' = <<>>
    /\ agent_scratchpad' = <<>>
    /\ model_output' = NoStep
    /\ UNCHANGED <<persistent_vars, current_figure, padFrame>>

\* the model request of a round: the prompt carries the steps taken so far
ModelRequest ==
    /\ pc = "plan"
    /\ ShouldContinue(iterations)
    /\ llm_calls' = llm_calls + 1
    /\ agent_scratchpad' = intermediate_steps
    /\ UNCHANGED <<queryNo, iterations, intermediate_steps, persistent_vars, padFrame>>

\* the model answers with an action on python_repl
PlanAction(code) ==
    /\ ModelRequest
    /\ model_output' = Step(ToolName, code, NoObservation)
    /\ pc' = "act"
    /\ UNCHANGED <<envelope, current_figure>>

\* the model answers with a text that is neither an action nor a final answer
PlanMalformed ==
    /\ ModelRequest
    /\ model_output' = Step(ExceptionAction, "", NoObservation)
    /\ pc' = "act"
    /\ UNCHANGED <<envelope, current_figure>>

\* invoke has returned or raised: its list of steps is dropped with its result
PadReturn(env) ==
    /\ envelope' = env
    /\ pc' = "idle"
    /\ intermediate_steps' = <<>>
    /\ agent_scratchpad' = <<>>
    /\ model_output' = NoStep
    /\ UNCHANGED <<queryNo, iterations, persistent_vars, padFrame>>

\* the model answers with its final answer
PlanFinalAnswer ==
    /\ pc = "plan"
    /\ ShouldContinue(iterations)
    /\ llm_calls' = llm_calls + 1
    /\ current_figure' = NoFigure
    /\ PadReturn(SuccessEnvelope(FinalAnswerText, current_figure, queryNo))

\* the model request raises
PlanFails(msg) ==
    /\ pc = "plan"
    /\ ShouldContinue(iterations)
    /\ llm_calls' = llm_calls + 1
    /\ current_figure' = current_figure
    /\ PadReturn(FailureEnvelope(msg, queryNo))

\* the parsed output is carried out and the step is appended
Act ==
    /\ pc = "act"
    /\ LET r == Run(model_output.input, tool_df, persistent_vars, current_figure,
                    queryNo) IN
       IF model_output.action = ToolName
       THEN /\ persistent_vars' = r.pvars
            /\ current_figure' = r.figure
            /\ intermediate_steps' =
                 AppendStep(intermediate_steps,
                            Step(ToolName, model_output.input, r.result))
       ELSE /\ intermediate_steps' =
                 AppendStep(intermediate_steps,
                            Step(ExceptionAction, "", ParsingErrorObservation))
            /\ UNCHANGED <<persistent_vars, current_figure>>
    /\ iterations' = iterations + 1
    /\ pc' = "plan"
    /\ UNCHANGED <<queryNo, llm_calls, envelope, agent_scratchpad, model_output,
                   padFrame>>

\* the step budget is used up: the executor's stopping response
PadStepLimit ==
    /\ pc = "plan"
    /\ ~ShouldContinue(iterations)
    /\ llm_calls' = llm_calls
    /\ current_figure' = NoFigure
    /\ PadReturn(SuccessEnvelope(StoppedText, current_figure, queryNo))

PadNext ==
    \/ DirectQuery
    \/ \E code \in PadCodes : PlanAction(code)
    \/ PlanMalformed
    \/ PlanFinalAnswer
    \/ \E msg \in LLMMsgs : PlanFails(msg)
    \/ Act
    \/ PadStepLimit

PadSpec == PadInit /\ [][PadNext]_vars

(* --------------- the endpoints as coroutines of one event loop ---------- *)
(* uvicorn.run(app) serves every request on one asyncio event loop.  The    *)
(* endpoints are `async def`: a coroutine keeps the loop until it returns   *)
(* or reaches an await that suspends.  Requests arrive at any time.         *)
ServeRounds == 2         \* rounds a query of this specification executes at most

\* a bug AwaitSuspends could have: process_query awaits the executor (ainvoke),
\* so the loop is free during every model request
AwaitSuspendsAlways(point) == TRUE

\* whether the coroutine hands the loop back at the await: `await file.read()`
\* does; `await agent.process_query(...)` runs a coroutine that contains no await
\* (invoke and _run are synchronous calls), so it does not
AwaitSuspends(point) == point = "file.read"

\* what the server specification leaves alone
serveFrame == <<storeVars, has_key, agentVars, loopVars, http_status, histVars,
                toolRunVars, padVars, frontVars, moreVars>>

ServeInit ==
    /\ StoreIdle /\ disk_ok = TRUE /\ has_key = TRUE
    /\ AgentIdle /\ LoopIdle /\ ToolIdle /\ PadIdle /\ ServeIdle /\ FrontIdle /\ MoreIdle

\* a client sends request r
Arrive(r) ==
    /\ req_state[r] = "new"
    /\ req_state' = [req_state EXCEPT ![r] = "queued"]
    /\ UNCHANGED <<loop_owner, in_agent, rounds_done, serveFrame>>

\* the loop is free and starts the coroutine of r; a process_query request goes
\* through get_or_load_session and get_agent into agent.process_query
Dispatch(r) ==
    /\ loop_owner = NoRequest
    /\ req_state[r] = "queued"
    /\ loop_owner' = r
    /\ req_state' = [req_state EXCEPT ![r] = "running"]
    /\ in_agent' = IF r \in QueryRequests THEN in_agent \cup {r} ELSE in_agent
    /\ UNCHANGED <<rounds_done, serveFrame>>

\* the coroutine of r at an await: it keeps the loop or hands it back
AtAwait(r, point) ==
    IF AwaitSuspends(point)
    THEN /\ loop_owner' = NoRequest
         /\ req_state' = [req_state EXCEPT ![r] = "waiting"]
    ELSE UNCHANGED <<loop_owner, req_state>>

\* the loop is free and resumes the suspended coroutine of r
Resume(r) ==
    /\ loop_owner = NoRequest
    /\ req_state[r] = "waiting"
    /\ loop_owner' = r
    /\ req_state' = [req_state EXCEPT ![r] = "running"]
    /\ UNCHANGED <<in_agent, rounds_done, serveFrame>>

\* one round of the query of r: a model request and an execution in the tool
QueryRound(r) ==
    /\ r \in QueryRequests
    /\ loop_owner = r
    /\ req_state[r] = "running"
    /\ rounds_done[r] < ServeRounds
    /\ rounds_done' = [rounds_done EXCEPT ![r] = rounds_done[r] + 1]
    /\ AtAwait(r, "process_query")
    /\ UNCHANGED <<in_agent, serveFrame>>

\* process_query returns and the endpoint answers
QueryDone(r) ==
    /\ r \in QueryRequests
    /\ loop_owner = r
    /\ req_state[r] = "running"
    /\ in_agent' = in_agent \ {r}
    /\ req_state' = [req_state EXCEPT ![r] = "done"]
    /\ loop_owner' = NoRequest
    /\ UNCHANGED <<rounds_done, serveFrame>>

\* upload_data up to `await file.read()`
UploadRead(r) ==
    /\ r \in UploadRequests
    /\ loop_owner = r
    /\ req_state[r] = "running"
    /\ rounds_done[r] = 0
    /\ rounds_done' = [rounds_done EXCEPT ![r] = 1]
    /\ AtAwait(r, "file.read")
    /\ UNCHANGED <<in_agent, serveFrame>>

\* upload_data from the parsing of the file to its response
UploadDone(r) ==
    /\ r \in UploadRequests
    /\ loop_owner = r
    /\ req_state[r] = "running"
    /\ rounds_done[r] = 1
    /\ req_state' = [req_state EXCEPT ![r] = "done"]
    /\ loop_owner' = NoRequest
    /\ UNCHANGED <<in_agent, rounds_done, serveFrame>>

ServeNext ==
    \/ \E r \in Requests : Arrive(r)
    \/ \E r \in Requests : Dispatch(r)
    \/ \E r \in Requests : Resume(r)
    \/ \E r \in Requests : QueryRound(r)
    \/ \E r \in Requests : QueryDone(r)
    \/ \E r \in Requests : UploadRead(r)
    \/ \E r \in Requests : UploadDone(r)

ServeSpec == ServeInit /\ [][ServeNext]_vars

(* ------------------- the Send handler of the chat page ----------------- *)
(* app.py asks the intent classifier first (POST /analyze_query/) and then  *)
(* decides whether to call POST /process_query/.                            *)
MaxSends == 3            \* queries sent from the page in one behaviour

\* QueryIntent
Intents == {"visualization", "data_summary", "data_filter", "data_transform", "unclear"}

\* how the classification of a query ends: the chain answers with an intent, the
\* chain raises inside QueryAnalyzer.analyze_query, or the endpoint cannot be
\* reached or answers with another status than 200
ClassifierEnds == {"answered", "failed", "unavailable"}

\* QueryAnalyzer.analyze_query: the intent of the QueryAnalysis it returns
AnalyzeQuery(ends, intent) == IF ends = "failed" THEN "unclear" ELSE intent

\* analyze_query_with_api: the intent of the JSON answer, or None
AnalyzeQueryWithApi(ends, intent) ==
    IF ends = "unavailable" THEN NoAnalysis ELSE AnalyzeQuery(ends, intent)

\* if analysis and analysis.get("intent") == "unclear"
IntentUnclear(a) == a # NoAnalysis /\ a = "unclear"

\* the number of queries in st.session_state.messages
Sent == Cardinality({i \in 1..Len(messages) : messages[i] = "user"})

\* what the page specification leaves alone
frontFrame == <<storeVars, has_key, agentVars, loopVars, http_status, histVars,
                toolRunVars, padVars, serveVars, moreVars>>

FrontInit ==
    /\ StoreIdle /\ disk_ok = TRUE /\ has_key = TRUE
    /\ AgentIdle /\ LoopIdle /\ ToolIdle /\ PadIdle /\ ServeIdle /\ FrontIdle /\ MoreIdle

\* the Send button with a non-empty query: the user message is appended
Send ==
    /\ front_pc = "ready"
    /\ Sent < MaxSends
    /\ messages' = Append(messages, "user")
    /\ front_pc' = "analyzing"
    /\ analysis' = NoAnalysis
    /\ classifier' = "none"
    /\ forwarded' = FALSE
    /\ UNCHANGED frontFrame

\* analysis = analyze_query_with_api(final_query)
Analyze(ends, intent) ==
    /\ front_pc = "analyzing"
    /\ analysis' = AnalyzeQueryWithApi(ends, intent)
    /\ classifier' = ends
    /\ front_pc' = "deciding"
    /\ UNCHANGED <<forwarded, messages, frontFrame>>

\* the intent is "unclear": the page answers itself and the query goes nowhere
NotUnderstood ==
    /\ front_pc = "deciding"
    /\ IntentUnclear(analysis)
    /\ messages' = Append(messages, "not understood")
    /\ front_pc' = "ready"
    /\ UNCHANGED <<analysis, classifier, forwarded, frontFrame>>

\* otherwise: response = process_query_with_api(final_query), shown as it comes
Forward(response) ==
    /\ front_pc = "deciding"
    /\ ~IntentUnclear(analysis)
    /\ forwarded' = TRUE
    /\ messages' = IF response = "no connection" THEN messages
                   ELSE Append(messages, response)
    /\ front_pc' = "ready"
    /\ UNCHANGED <<analysis, classifier, frontFrame>>

FrontNext ==
    \/ Send
    \/ \E intent \in Intents : Analyze("answered", intent)
    \/ \E ends \in ClassifierEnds \ {"answered"} : Analyze(ends, "unclear")
    \/ NotUnderstood
    \/ \E response \in {"answer", "error from API", "no connection"} : Forward(response)

FrontSpec == FrontInit /\ [][FrontNext]_vars

(* ------------- the figures of a query, execution by execution ---------- *)
(* The agent made by get_agent(df) answers queries whose rounds run code    *)
(* that makes figures in several ways, or none; the model ends a query with *)
(* its final answer or a failed request.                                    *)
ChartRounds == 3         \* rounds a query of this specification executes at most
ChartCodes == {"plot", "plot_go", "plot_show", "set_x1", "plot_raise"}

\* what the figure specification leaves alone
chartFrame == <<storeVars, has_key, agent_instance, agent_df, tool_df, cur_session,
                http_status, llm_calls, malformed_run, histVars, toolRunVars, padVars,
                serveVars, frontVars, fenceVars, limiterVars, sessionHistVars>>

\* get_agent(df) with the first dataset
ChartInit ==
    /\ StoreIdle /\ disk_ok = TRUE /\ has_key = TRUE
    /\ agent_instance = TRUE
    /\ agent_df \in PadDatasets \ {NoDataset}
    /\ tool_df = agent_df
    /\ persistent_vars = EmptyScope
    /\ current_figure = NoFigure
    /\ LoopIdle /\ ToolIdle /\ PadIdle /\ ServeIdle /\ FrontIdle /\ MoreIdle

\* process_query up to the first round of agent_executor.invoke
ChartQuery ==
    /\ pc = "idle"
    /\ queryNo < MaxQueries
    /\ pc' = "loop"
    /\ queryNo' = queryNo + 1
    /\ iterations' = 0
    /\ last_step' = NoStep
    /\ envelope' = NoEnvelope
    /\ captured' = NoFigure
    /\ captures' = 0
    /\ UNCHANGED <<persistent_vars, current_figure, chartFrame>>

\* a round: the model names python_repl with input code and the tool runs it
ChartRound(code) ==
    /\ pc = "loop"
    /\ iterations < ChartRounds
    /\ LET r == Run(code, tool_df, persistent_vars, current_figure, queryNo) IN
        /\ persistent_vars' = r.pvars
        /\ current_figure' = r.figure
        /\ last_step' = Step(ToolName, code, r.result)
        /\ IF r.result.text = VizOkText
           THEN /\ captured' = FigureLocal(ExecLocals(code, queryNo))
                /\ captures' = captures + 1
           ELSE UNCHANGED <<captured, captures>>
    /\ iterations' = iterations + 1
    /\ UNCHANGED <<pc, queryNo, envelope, chartFrame>>

\* the model gives its final answer: the figure is read into the envelope and cleared
ChartFinalAnswer ==
    /\ pc = "loop"
    /\ envelope' = SuccessEnvelope(FinalAnswerText, current_figure, queryNo)
    /\ current_figure' = NoFigure
    /\ pc' = "idle"
    /\ UNCHANGED <<queryNo, iterations, last_step, persistent_vars, captured, captures,
                   chartFrame>>

\* a model request raises: the except branch answers and the figure stays
ChartFails(msg) ==
    /\ pc = "loop"
    /\ envelope' = FailureEnvelope(msg, queryNo)
    /\ pc' = "idle"
    /\ UNCHANGED <<queryNo, iterations, last_step, persistent_vars, current_figure,
                   captured, captures, chartFrame>>

ChartNext ==
    \/ ChartQuery
    \/ \E code \in ChartCodes : ChartRound(code)
    \/ ChartFinalAnswer
    \/ \E msg \in LLMMsgs : ChartFails(msg)

ChartSpec == ChartInit /\ [][ChartNext]_vars

(* ---------------- _run on the text of an Action Input ------------------- *)
(* A text is a sequence of pieces: a backtick, the word python, a space, a  *)
(* line break, or the text of one of the codes above (which holds no        *)
(* backtick and no blank at either end, and does not begin with python).    *)
Backtick == "backtick"                                    \* the character U+0060
PythonWord == "python"
Fence == <<Backtick, Backtick, Backtick>>                 \* '```'
FencePython == <<Backtick, Backtick, Backtick, PythonWord>>   \* '```python'
IsSpace(piece) == piece \in {" ", "\n"}

\* text.startswith(prefix), text.endswith(suffix)
StartsWith(text, prefix) ==
    Len(text) >= Len(prefix) /\ SubSeq(text, 1, Len(prefix)) = prefix
EndsWith(text, suffix) ==
    Len(text) >= Len(suffix)
      /\ SubSeq(text, Len(text) - Len(suffix) + 1, Len(text)) = suffix

\* text[n:] and text[:-n], counted in pieces
DropFirst(text, n) == SubSeq(text, n + 1, Len(text))
DropLast(text, n) == SubSeq(text, 1, Len(text) - n)

RECURSIVE LStrip(_)
LStrip(text) ==
    IF text # <<>> /\ IsSpace(Head(text)) THEN LStrip(Tail(text)) ELSE text

RECURSIVE RStrip(_)
RStrip(text) ==
    IF text # <<>> /\ IsSpace(text[Len(text)]) THEN RStrip(DropLast(text, 1)) ELSE text

\* text.strip()
StripSpace(text) == RStrip(LStrip(text))

\* if code.startswith('```python'): code = code[9:]
StripFencePython(text) ==
    IF StartsWith(text, FencePython) THEN DropFirst(text, Len(FencePython)) ELSE text

\* if code.startswith('```'): code = code[3:]
StripOpeningFence(text) ==
    IF StartsWith(text, Fence) THEN DropFirst(text, Len(Fence)) ELSE text

\* a bug StripClosingFence could have: the closing marker stays
StripClosingFenceSkipped(text) == text

\* if code.endswith('```'): code = code[:-3]
StripClosingFence(text) ==
    IF EndsWith(text, Fence) THEN DropLast(text, Len(Fence)) ELSE text

\* the cleaning of code at the head of _run, in the order of the source
StripFences(text) ==
    StripSpace(StripClosingFence(StripOpeningFence(StripFencePython(StripSpace(text)))))

\* what exec does with a cleaned text: the code it is, or the error it ends in
ExecText(text) ==
    CASE text = <<>> -> "pass"
      [] \E i \in 1..Len(text) : text[i] = Backtick -> "syntax_error"
      [] text # <<>> /\ Head(text) = PythonWord -> "name_error"
      [] Len(text) = 1 /\ Head(text) \in Codes -> Head(text)
      [] OTHER -> "syntax_error"

\* the codes a model submits, as texts: one statement with or without blanks
\* around it, the empty text, and texts whose first line is the word python
Bodies ==
    {<<>>, <<"set_x1">>, <<"set_x2">>, <<" ", "set_x2", "\n">>, <<"set_df">>,
     <<"plot">>, <<"raise">>, <<PythonWord>>, <<PythonWord, "\n", "set_x2">>}

\* the ways a model wraps code: not at all, in a block with or without the
\* language name, or between the markers on one line
Wrappers == {"none", "python block", "block", "python inline", "inline",
             "python block in blanks"}

Wrap(wrapper, body) ==
    CASE wrapper = "python block"  -> FencePython \o <<"\n">> \o body \o <<"\n">> \o Fence
      [] wrapper = "block"         -> Fence \o <<"\n">> \o body \o <<"\n">> \o Fence
      [] wrapper = "python inline" -> FencePython \o body \o Fence
      [] wrapper = "inline"        -> Fence \o body \o Fence
      [] wrapper = "python block in blanks" ->
            <<" ">> \o FencePython \o <<"\n">> \o body \o <<"\n">> \o Fence \o <<"\n">>
      [] OTHER -> body

\* what the text specification leaves alone
fenceFrame == <<storeVars, has_key, agent_instance, agent_df, tool_df, loopVars,
                http_status, histVars, sys_stdout, old_stdout, run_pc, padVars,
                serveVars, frontVars, chartVars, limiterVars, sessionHistVars>>

\* PythonREPLTool(df=df) with the first dataset
FenceInit ==
    /\ StoreIdle /\ disk_ok = TRUE /\ has_key = TRUE
    /\ agent_instance = FALSE
    /\ agent_df = NoDataset
    /\ tool_df \in PadDatasets \ {NoDataset}
    /\ persistent_vars = EmptyScope
    /\ current_figure = NoFigure
    /\ LoopIdle /\ ToolIdle /\ PadIdle /\ ServeIdle /\ FrontIdle /\ MoreIdle

\* _run(code) with code the text of body in wrapper: cleaning, exec, result
RunText(wrapper, body) ==
    /\ code_text' = Wrap(wrapper, body)
    /\ code_body' = body
    /\ code_wrapper' = wrapper
    /\ run_code' = ExecText(StripFences(code_text'))
    /\ run_entry' = Entry(tool_df, persistent_vars, current_figure, sys_stdout)
    /\ exec_attempted' = TRUE
    /\ LET r == Run(run_code', tool_df, persistent_vars, current_figure, queryNo) IN
        /\ persistent_vars' = r.pvars
        /\ current_figure' = r.figure
        /\ run_outcome' = Outcome("returned", r.result)
    /\ UNCHANGED fenceFrame

FenceNext == \E wrapper \in Wrappers, body \in Bodies : RunText(wrapper, body)

FenceSpec == FenceInit /\ [][FenceNext]_vars

(* ------------------- RateLimiter of the test runner -------------------- *)
(* TestRunner.run_single_test awaits rate_limiter.wait_if_needed() before   *)
(* each question, one call after the other.  Time is counted in seconds;    *)
(* between two calls any time may pass, also none.                          *)
max_requests == 2        \* RateLimiter(max_requests=...), as small as shows the limit
time_window == 3         \* RateLimiter(time_window=...), in seconds
MaxCalls == 5            \* calls of wait_if_needed in one behaviour
MaxClock == 10           \* the time up to which the caller lets seconds pass

\* while self.requests and self.requests[0] <= now - self.time_window: popleft()
RECURSIVE RemoveOld(_, _)
RemoveOld(deque, now) ==
    IF deque # <<>> /\ Head(deque) <= now - time_window
    THEN RemoveOld(Tail(deque), now)
    ELSE deque

\* a bug AtLimit could have: the comparison lets one request too many pass
AtLimitOffByOne(deque) == Len(deque) > max_requests

\* if len(self.requests) >= self.max_requests
AtLimit(deque) == Len(deque) >= max_requests

\* sleep_time = self.time_window - (now - self.requests[0]) + 1
SleepTime(deque, now) == time_window - (now - Head(deque)) + 1

\* what the limiter specification leaves alone
limiterFrame == <<storeVars, has_key, agentVars, loopVars, http_status, histVars,
                  toolRunVars, padVars, serveVars, frontVars, chartVars, fenceVars,
                  sessionHistVars>>

LimiterInit ==
    /\ StoreIdle /\ disk_ok = TRUE /\ has_key = TRUE
    /\ AgentIdle /\ LoopIdle /\ ToolIdle /\ PadIdle /\ ServeIdle /\ FrontIdle /\ MoreIdle

\* a second passes between two calls
Pause ==
    /\ Len(recorded) < MaxCalls
    /\ clock < MaxClock
    /\ clock' = clock + 1
    /\ UNCHANGED <<requests, recorded, slept, limiterFrame>>

\* await wait_if_needed(): the old entries go, the call sleeps when the deque is
\* full (asyncio.sleep returns after the time asked or late), and records now
WaitIfNeeded(late) ==
    /\ Len(recorded) < MaxCalls
    /\ LET now == clock
           fresh == RemoveOld(requests, now)
           sleeps == AtLimit(fresh) /\ SleepTime(fresh, now) > 0
           woke == IF sleeps THEN now + SleepTime(fresh, now) + late ELSE now
           kept == IF sleeps THEN RemoveOld(fresh, woke) ELSE fresh
       IN /\ requests' = Append(kept, woke)
          /\ recorded' = Append(recorded, woke)
          /\ clock' = woke
          /\ slept' = woke - now
    /\ UNCHANGED limiterFrame

LimiterNext ==
    \/ Pause
    \/ \E late \in {0, 1} : WaitIfNeeded(late)

LimiterSpec == LimiterInit /\ [][LimiterNext]_vars

(* ------------- the session store: memory, disk and restarts ------------ *)
(* DF_STORAGE and the files under session_storage through uploads, lookups, *)
(* clear_session and restarts of the server.  Each operation on a file can  *)
(* fail on its own (the directory or the file is not writable or readable   *)
(* at that moment); the helpers catch the exception and only log it.        *)

\* delete_session_from_disk: the file is unlinked, or unlink fails and is only logged
DeleteSessionFromDisk(d, s, deleted) == IF deleted THEN [d EXCEPT ![s] = NoDataset] ELSE d

\* load_session_from_disk: the pickled dataset, or None when there is no file or
\* reading it fails
LoadSessionFromDisk(d, s, loaded) == IF loaded THEN d[s] ELSE NoDataset

\* what the store specification leaves alone
sessionFrame == <<disk_ok, has_key, agentVars, pc, iterations, last_step, envelope,
                  queryNo, llm_calls, malformed_run, histVars, toolRunVars, padVars,
                  serveVars, frontVars, chartVars, fenceVars, limiterVars>>

SessionInit ==
    /\ StoreIdle /\ disk_ok = TRUE /\ has_key = TRUE
    /\ AgentIdle /\ LoopIdle /\ ToolIdle /\ PadIdle /\ ServeIdle /\ FrontIdle /\ MoreIdle

\* POST /upload/ with a readable file holding dataset d: answered "success"
\* whether or not the file was written
SessionUpload(s, d, saved) ==
    /\ DF_STORAGE' = [DF_STORAGE EXCEPT ![s] = d]
    /\ disk' = SaveSessionToDisk(disk, s, d, saved)
    /\ http_status' = 200
    /\ cur_session' = s
    /\ uploaded_ok' = [uploaded_ok EXCEPT ![s] = d]
    /\ cleared' = cleared \ {s}
    /\ UNCHANGED sessionFrame

\* get_or_load_session(s) as process_agent_query and get_data_info call it:
\* 404 when it returns None; a dataset loaded from disk is cached
SessionLookup(s, loaded) ==
    /\ LET df == IF DF_STORAGE[s] # NoDataset THEN DF_STORAGE[s]
                 ELSE LoadSessionFromDisk(disk, s, loaded) IN
        /\ DF_STORAGE' = [DF_STORAGE EXCEPT ![s] = df]
        /\ http_status' = IF df = NoDataset THEN 404 ELSE 200
    /\ cur_session' = s
    /\ UNCHANGED <<disk, uploaded_ok, cleared, sessionFrame>>

\* DELETE /session/{s}: answered "success" whether or not the file was removed
ClearSession(s, deleted) ==
    /\ DF_STORAGE' = [DF_STORAGE EXCEPT ![s] = NoDataset]
    /\ disk' = DeleteSessionFromDisk(disk, s, deleted)
    /\ http_status' = 200
    /\ cur_session' = s
    /\ uploaded_ok' = [uploaded_ok EXCEPT ![s] = NoDataset]
    /\ cleared' = cleared \cup {s}
    /\ UNCHANGED sessionFrame

\* the server process is started again: DF_STORAGE = {} and startup_event loads
\* every session file that can be read
Restart(readable) ==
    /\ DF_STORAGE' = [s \in Sessions |-> LoadSessionFromDisk(disk, s, s \in readable)]
    /\ http_status' = 0
    /\ cur_session' = NoSession
    /\ UNCHANGED <<disk, uploaded_ok, cleared, sessionFrame>>

SessionNext ==
    \/ \E u \in SessionFiles, saved \in BOOLEAN : SessionUpload(u[1], u[2], saved)
    \/ \E s \in Sessions, loaded \in BOOLEAN : SessionLookup(s, loaded)
    \/ \E s \in Sessions, deleted \in BOOLEAN : ClearSession(s, deleted)
    \/ \E readable \in SUBSET Sessions : Restart(readable)

SessionSpec == SessionInit /\ [][SessionNext]_vars

(* ----------------------------- properties ------------------------------ *)
\* an envelope was returned for the last query started
Returned == pc = "idle" /\ envelope # NoEnvelope

\* the last step of the scratchpad ran code that raised
RaisedLast == last_step.action = ToolName /\ CodeRaises(last_step.input) # NoMsg

\* what a later execution would see under each name
Visible == ExecGlobals(tool_df, persistent_vars)

\* C1: every envelope process_query returns has success=true and no error text,
\* or success=false and an error text; never the other two combinations.
C1_SuccessMatchesError ==
    envelope # NoEnvelope =>
        \/ envelope.success /\ envelope.error = NoError
        \/ ~envelope.success /\ envelope.error # NoError /\ envelope.error # NoMsg

\* C1 witness: a failure envelope returned after at least one round
C1_Witness == Returned /\ ~envelope.success /\ iterations >= 1

C3_StepLimitIsFailure ==
    (Returned /\ iterations = max_iterations) =>
        ~envelope.success /\ envelope.error # NoError

C7_ScopePersists ==
    \A key \in Names :
        IF key \in PrivateNames \cup {HelperName}
        THEN persistent_vars[key] = Absent
        ELSE last_assigned[key] # Absent => Visible[key] = last_assigned[key]

\* C7 witness: in the second query, after x = 2 was assigned in an earlier round,
\* an execution of other code has run and the next one sees x = 2
C7_Witness ==
    /\ queryNo = 2 /\ pc = "loop" /\ ShouldContinue(iterations)
    /\ last_step.action = ToolName /\ last_step.input = "set_df"
    /\ last_assigned["x"] = IntVal(2)
    /\ Visible["x"] = IntVal(2)

\* C8 (as specified): while a query of a session with no earlier rounds runs, no
\* variable stored by executions of another session is in the execution scope.
C8_FreshSessionSeesNoVariables ==
    (pc = "loop" /\ cur_session \notin had_rounds) =>
        \A key \in Names : persistent_vars[key] = Absent

\* C9 (as specified): the chart of an envelope was captured during the query the
\* envelope answers.
C9_ChartFromSameQuery ==
    (envelope # NoEnvelope /\ envelope.chart_figure # NoFigure) =>
        envelope.chart_figure = ChartVal(envelope.query)

\* C10 (as specified): in every execution the name df is the dataset bound by the
\* most recent update_dataframe.
C10_DfIsBoundDataset ==
    (pc = "loop" /\ ShouldContinue(iterations)) =>
        /\ tool_df = DF_STORAGE[cur_session]
        /\ Visible["df"] = DatasetVal(tool_df)

\* C11: update_dataframe, as get_agent calls it on the existing agent, makes the
\* dataset of the request the dataset of the agent and of its tool, leaves
\* _persistent_vars and current_figure as they were, and binding the same dataset a
\* second time changes nothing.
C11_BindReplacesDatasetOnly ==
    /\ [](\A d \in Datasets :
            /\ UpdateDataframe(UpdateDataframe(AgentFields, d), d)
                  = UpdateDataframe(AgentFields, d)
            /\ UpdateDataframe(AgentFields, d).agent_df = d
            /\ UpdateDataframe(AgentFields, d).tool_df = d)
    /\ [][(agent_instance /\ pc = "idle" /\ pc' = "loop") =>
            /\ agent_df' = GetOrLoadSession(cur_session')
            /\ tool_df' = agent_df'
            /\ persistent_vars' = persistent_vars
            /\ current_figure' = current_figure]_vars

\* C11 witness: the agent that served s1 with variables and a figure left in its
\* tool was bound to the dataset of s2, and both are still there
C11_Witness ==
    /\ queryNo = 2 /\ pc = "loop" /\ iterations = 0
    /\ cur_session = "s2" /\ had_rounds = {"s1"}
    /\ DF_STORAGE["s1"] = 1 /\ agent_df = 2 /\ tool_df = 2
    /\ persistent_vars["x"] # Absent
    /\ current_figure # NoFigure

\* a call of _run has ended and its outcome is with the caller
RunEnded == run_pc = "idle" /\ run_outcome # NoOutcome

\* C12: a call of _run on a tool with no dataset returns the no-data error text at
\* once: exec is not reached, and _persistent_vars, current_figure and sys.stdout
\* are what they were when the call began.
C12_NoDatasetNoExecution ==
    /\ run_entry.df = NoDataset => run_pc = "idle"
    /\ (RunEnded /\ run_entry.df = NoDataset) =>
          /\ run_outcome = Outcome("returned", Text(NoDataText, NoMsg, {}))
          /\ ~exec_attempted
          /\ persistent_vars = run_entry.pvars
          /\ current_figure = run_entry.figure
          /\ sys_stdout = run_entry.stdout

\* C12 witness: code that assigns x = 2 was submitted to a tool that holds x = 1 and
\* a figure from earlier calls but no dataset any more
C12_Witness ==
    /\ RunEnded /\ run_entry.df = NoDataset /\ run_code = "set_x2"
    /\ persistent_vars["x"] = IntVal(1)
    /\ current_figure # NoFigure
    /\ sys_stdout = HostCapture

\* C14 (as specified): whatever the executed code raises, the call of _run returns
\* a text, the error text with the exception's message; no exception reaches the
\* caller.
C14_NoExceptionLeavesRun ==
    (RunEnded /\ exec_attempted) =>
        /\ run_outcome.kind = "returned"
        /\ (CodeRaises(run_code) # NoMsg \/ CodeExits(run_code)) =>
              run_outcome.result.text = ExecErrorPrefix

\* C15: when a call of _run has ended, by a return on the no-data path, by a return
\* after exec, or by an exception, sys.stdout is the stream that was installed when
\* the call began, and between calls sys.stdout is never the StringIO of _run.
C15_StdoutRestored ==
    /\ RunEnded => sys_stdout = run_entry.stdout
    /\ run_pc = "idle" => sys_stdout \in {Console, HostCapture}
    /\ run_pc = "finally" => old_stdout = run_entry.stdout

\* C15 witness: the caller's stream is back after code that assigned sys.stdout
C15_Witness ==
    /\ RunEnded /\ exec_attempted /\ run_code = "set_stdout"
    /\ run_entry.stdout = HostCapture /\ sys_stdout = HostCapture

\* C13 (as specified): when no dataset is bound, the no-data error of a query is
\* reported before any request was made to the model.
C13_BindingErrorBeforeModel ==
    \A i \in 1..Len(intermediate_steps) :
        intermediate_steps[i].observation.text = NoDataText => llm_calls = 0

\* C20: during an invoke the list of steps starts empty and holds one entry per
\* round executed, each with its action, input and observation; a step changes the
\* list only by appending one entry behind the others, the entry of the output
\* just parsed; and the request of round k carried the k-1 entries before it.
C20_ScratchpadAppendOnly ==
    /\ [](pc \in {"plan", "act"} =>
            /\ Len(intermediate_steps) = iterations
            /\ \A i \in 1..Len(intermediate_steps) :
                  /\ intermediate_steps[i].action \in {ToolName, ExceptionAction}
                  /\ intermediate_steps[i].observation # NoObservation)
    /\ [](pc = "act" =>
            /\ agent_scratchpad = intermediate_steps
            /\ Len(agent_scratchpad) = llm_calls - 1)
    /\ [][(pc = "idle" /\ pc' # "idle") => intermediate_steps' = <<>>]_vars
    /\ [][(pc # "idle" /\ pc' # "idle") =>
            \/ intermediate_steps' = intermediate_steps /\ pc = "plan"
            \/ /\ pc = "act"
               /\ Len(intermediate_steps') = Len(intermediate_steps) + 1
               /\ SubSeq(intermediate_steps', 1, Len(intermediate_steps))
                     = intermediate_steps
               /\ intermediate_steps'[Len(intermediate_steps')].action
                     = model_output.action
               /\ intermediate_steps'[Len(intermediate_steps')].input
                     = model_output.input]_vars

\* C20 witness: the third request of the second query carried the two steps taken,
\* a parse-error step and then an execution
C20_Witness ==
    /\ queryNo = 2 /\ pc = "act" /\ llm_calls = 3
    /\ Len(agent_scratchpad) = 2
    /\ agent_scratchpad[1].action = ExceptionAction
    /\ agent_scratchpad[2].action = ToolName
    /\ agent_scratchpad[2].observation.text = ExecOkText

\* C16: whatever the order in which process_query requests arrive, at most one of
\* them is inside agent.process_query; it holds the event loop from its first
\* round to its return, so while its rounds execute no other request has started
\* and not finished a query on the shared agent.
C16_QueriesNeverOverlap ==
    /\ Cardinality(in_agent) <= 1
    /\ \A r \in in_agent : loop_owner = r /\ req_state[r] = "running"
    /\ \A r \in QueryRequests :
          req_state[r] \in {"running", "waiting"} =>
              \A o \in QueryRequests \ {r} :
                  req_state[o] \in {"new", "queued", "done"}

\* C16 witness: a second process_query request arrived while the first was between
\* two rounds, with an upload suspended at its read, and it is still queued
C16_Witness ==
    /\ in_agent = {"q1"} /\ rounds_done["q1"] = 1
    /\ req_state["q2"] = "queued" /\ rounds_done["q2"] = 0
    /\ req_state["u1"] = "waiting"

\* C17 (as specified): a process_query request that meets a failure of the model,
\* the missing credential at the creation of the agent included, is answered
\* with a failure envelope: success=false and the message; no exception leaves
\* get_agent or process_query.
C17_ModelFailureGivesEnvelope ==
    [][(\E s \in Sessions : QueryNoCredentials(s)) \/ (\E msg \in LLMMsgs : ModelFails(msg))
          => /\ envelope' # NoEnvelope
             /\ ~envelope'.success
             /\ envelope'.error # NoError
             /\ http_status' = 200]_vars

C19_ClassifierFailureStillForwards ==
    (front_pc = "ready" /\ classifier \in {"failed", "unavailable"}) => forwarded

\* C21: when executions of a query captured figures, current_figure is the figure
\* of the latest of them and the success envelope of the query carries that figure;
\* a round whose execution captured none leaves current_figure as it was.
C21_LastChartWins ==
    /\ [](captures >= 1 =>
            /\ pc = "loop" => current_figure = captured
            /\ (Returned /\ envelope.success) => envelope.chart_figure = captured)
    /\ [][(pc = "loop" /\ pc' = "loop" /\ last_step'.observation.text # VizOkText)
            => current_figure' = current_figure]_vars

\* C21 witness: px.bar into fig, then go.Figure into figure, then code without a
\* figure; the envelope carries the go.Figure
C21_Witness ==
    /\ Returned /\ envelope.success /\ captures = 2
    /\ last_step.input = "set_x1"
    /\ persistent_vars["fig"] = ChartVal(queryNo)
    /\ envelope.chart_figure = GoFigureVal(queryNo)

\* C22 (as specified): an execution that did not raise captures a figure exactly
\* when the code text has 'px.', 'go.' or 'ff.' and the execution made a local fig
\* or figure; then current_figure is that local and the result is the fixed
\* visualization message without a summary; otherwise current_figure is what it
\* was and the result summarizes the new locals that are not reserved.
C22_CaptureIffPlotlyAndFigureName ==
    (RunEnded /\ exec_attempted /\ run_outcome.kind = "returned"
       /\ CodeRaises(run_code) = NoMsg) =>
        LET locals == ExecLocals(run_code, queryNo) IN
        IF UsesPlotly(run_code) /\ (locals["fig"] # Absent \/ locals["figure"] # Absent)
        THEN /\ current_figure \in {locals["fig"], locals["figure"]} \ {Absent}
             /\ run_outcome.result = Text(VizOkText, NoMsg, {})
        ELSE /\ current_figure = run_entry.figure
             /\ run_outcome.result = Text(ExecOkText, NoMsg, ResultVars(locals))

\* C25: when the executed code raised, _persistent_vars and current_figure are what
\* they were when the call began; the names the code assigned before the exception
\* are not stored.
C25_RaiseLeavesScopeAndFigure ==
    (RunEnded /\ exec_attempted
       /\ (CodeRaises(run_code) # NoMsg \/ CodeExits(run_code))) =>
        /\ persistent_vars = run_entry.pvars
        /\ current_figure = run_entry.figure

\* C25 witness: code that assigns fig and then raises ran on a tool that holds
\* x = 1, no fig, and a figure of an earlier call
C25_Witness ==
    /\ RunEnded /\ exec_attempted /\ run_code = "plot_raise"
    /\ CodeLocals(run_code, queryNo)["fig"] # Absent
    /\ persistent_vars["x"] = IntVal(1)
    /\ persistent_vars["fig"] = Absent
    /\ current_figure = GoFigureVal(queryNo)

\* C26 (as specified): every call of _run that returns gives its caller a text: one
\* of the success messages or an error message, never None.
C26_RunAlwaysReturnsText ==
    (RunEnded /\ run_outcome.kind = "returned") =>
        /\ run_outcome.result # NoResult
        /\ run_outcome.result.text \in {ExecOkText, VizOkText, ExecErrorPrefix, NoDataText}

\* what _run gives for the code of the last call when it is submitted unwrapped
\* to the tool as it was when that call began
Unwrapped ==
    Run(ExecText(StripFences(code_body)), run_entry.df, run_entry.pvars,
        run_entry.figure, queryNo)

\* the last call of _run had the same result and left the same variables and
\* figure as the unwrapped code would have, and cleaning its text again changes
\* nothing
SameAsUnwrapped ==
    /\ run_outcome.result = Unwrapped.result
    /\ persistent_vars = Unwrapped.pvars
    /\ current_figure = Unwrapped.figure
    /\ StripFences(StripFences(code_text)) = StripFences(code_text)

\* C23 (as specified): for every code without fence markers, running it between
\* ```python and ``` or between ``` and ```, however the markers are joined to it,
\* gives the result and the effect on _persistent_vars and current_figure of
\* running it unwrapped, and cleaning a cleaned text changes nothing.
C23_FenceStrippingTransparent ==
    run_outcome # NoOutcome => SameAsUnwrapped

\* C23 (amended): the same, for the wrapper ```python ... ``` in every form and for
\* the wrapper ``` ... ``` when the code does not start with the word python
\* directly behind the opening marker (a line break or a blank between them is
\* enough).
C23_FenceStrippingTransparentUnlessPythonFirst ==
    (run_outcome # NoOutcome
       /\ ~(code_wrapper = "inline" /\ StartsWith(code_body, <<PythonWord>>))) =>
        SameAsUnwrapped

\* C23 witness: code in a ```python block with blanks around it assigned x = 2 on
\* a tool that held a figure, as the unwrapped code does
C23_Witness ==
    /\ run_outcome # NoOutcome
    /\ code_wrapper = "python block in blanks" /\ code_body = <<" ", "set_x2", "\n">>
    /\ StripFences(code_text) = <<"set_x2">>
    /\ persistent_vars["x"] = IntVal(2)
    /\ run_entry.figure # NoFigure

\* C24: after every call of wait_if_needed, one after the other, no window of
\* time_window seconds (from t up to, not including, t + time_window) holds more
\* than max_requests of the timestamps recorded so far, and the deque holds at
\* most max_requests entries, all of them recorded timestamps in order.
C24_RateNeverExceeded ==
    /\ \A t \in 0..clock :
          Cardinality({i \in 1..Len(recorded) :
                          t <= recorded[i] /\ recorded[i] < t + time_window})
              <= max_requests
    /\ Len(requests) <= max_requests
    /\ Len(requests) <= Len(recorded)
    /\ requests = SubSeq(recorded, Len(recorded) - Len(requests) + 1, Len(recorded))

\* C24 witness: a call found the deque full, slept, and recorded its request; by
\* now more requests were recorded than one window allows
C24_Witness ==
    /\ slept > 0
    /\ Len(recorded) > max_requests + 1
    /\ Len(requests) = max_requests
    /\ recorded[Len(recorded)] = clock

\* C27 (as specified): whatever the order of the upload and process_query requests
\* of the sessions, while a query of session S executes code the tool is bound to
\* the dataset last uploaded for S, and the name df that the code reads is that
\* dataset or, when earlier queries of S executed code, a value that code may
\* have derived; it is never data of another session.
C27_QueryRunsOnOwnDataset ==
    (pc = "loop" /\ ShouldContinue(iterations)) =>
        /\ tool_df = DF_STORAGE[cur_session]
        /\ tool_df # NoDataset
        /\ Visible["df"] \in
              {DatasetVal(tool_df)}
                \cup (IF cur_session \in had_rounds THEN {DerivedVal} ELSE {})

\* C28 (as specified): from the success answer of clear_session(s) until the next
\* upload for s, the dataset of s is in neither store, so get_or_load_session(s)
\* returns None (and process_query and data_info, which answer 404 exactly then,
\* answer 404).
C28_ClearedSessionNotRetrievable ==
    \A s \in cleared :
        /\ GetOrLoadSession(s) = NoDataset
        /\ LoadSessionFromDisk(disk, s, TRUE) = NoDataset

\* C29 (as specified): a session held both in DF_STORAGE and on disk has the same
\* dataset in both, and a dataset in DF_STORAGE, also one a restart loaded, is the
\* one of the session's last upload that was answered "success".
C29_CacheAndDiskCoherent ==
    \A s \in Sessions :
        /\ (DF_STORAGE[s] # NoDataset /\ disk[s] # NoDataset) => DF_STORAGE[s] = disk[s]
        /\ (DF_STORAGE[s] # NoDataset /\ uploaded_ok[s] # NoDataset) =>
              DF_STORAGE[s] = uploaded_ok[s]

====
